---- MODULE Spec2Model ----
(***************************************************************************)
(* Model of create_charts.py: main() reads a semicolon-delimited survey    *)
(* CSV (read_csv), derives the thirteen charts and their summaries in      *)
(* fixed order (create_all_charts) and writes one chart block per entry    *)
(* (create_html_report).                                                   *)
(*                                                                         *)
(* Text is a sequence of string fragments whose concatenation is the text: *)
(* literals of the source are one fragment, formatted values (labels,      *)
(* numbers) are spelled character by character.  A CSV cell is a sequence  *)
(* of characters.  Numbers are fixed-point integers in units of            *)
(* 10^-FracDigits.                                                         *)
(***************************************************************************)
EXTENDS Integers, Sequences, FiniteSets, TLC

VARIABLES csv, df, pc, exc, charts, html, err9

vars == <<csv, df, pc, exc, charts, html, err9>>

(***************************************************************************)
(* Bounds of the model.                                                    *)
(***************************************************************************)
\* Largest number of data rows of the enumerated CSV files.
MaxRows == 3
\* Decimal places carried by the fixed-point numbers.
FracDigits == 4

RECURSIVE Pow10(_)
Pow10(k) == IF k = 0 THEN 1 ELSE 10 * Pow10(k - 1)

Scale == Pow10(FracDigits)

(***************************************************************************)
(* Program constants.                                                      *)
(***************************************************************************)
\* nbinsx of the hours histogram.
NBins == 10
\* Digits kept by the percentage of a top/majority summary.
ShareDigits == 1
\* Digits kept by median and mean of the hours summary.
HoursDigits == 2
\* Digits kept by the outage durations.
DurationDigits == 3

\* The thirteen question columns, by question number.
Questions == 1..13
region_col == 1
conn_col == 2
stability_col == 3
hours_no_internet_col == 4
outage_freq_col == 5
outage_duration_col == 6
backup_yes_col == 7
backup_type_col == 8
backup_duration_col == 9
device_col == 10
workplace_col == 11
accessories_col == 12
ergonomic_col == 13

short_titles ==
    [c \in Questions |->
        CASE c = 1 -> "Region distribution"
          [] c = 2 -> "Internet connection type"
          [] c = 3 -> "Connection stability rating"
          [] c = 4 -> "Hours without internet (per day)"
          [] c = 5 -> "Power outage frequency"
          [] c = 6 -> "Outage duration (hours)"
          [] c = 7 -> "Backup power availability"
          [] c = 8 -> "Types of backup power"
          [] c = 9 -> "Backup power duration (hours)"
          [] c = 10 -> "Available device type"
          [] c = 11 -> "Separate workplace at home"
          [] c = 12 -> "Accessories availability"
          [] OTHER -> "Workplace ergonomics"]

(***************************************************************************)
(* Generic helpers on sequences and sets.                                  *)
(***************************************************************************)
Range(s) == {s[i] : i \in DOMAIN s}

RECURSIVE SumSeq(_)
SumSeq(s) == IF s = <<>> THEN 0 ELSE Head(s) + SumSeq(Tail(s))

SetMin(S) == CHOOSE x \in S : \A y \in S : x <= y
SetMax(S) == CHOOSE x \in S : \A y \in S : x >= y

\* The elements of a finite set of integers in ascending order.
RECURSIVE SortedSeq(_)
SortedSeq(S) == IF S = {} THEN <<>> ELSE <<SetMin(S)>> \o SortedSeq(S \ {SetMin(S)})

\* The sequences of length 0..n over S.
SeqsUpTo(S, n) == UNION {[1..k -> S] : k \in 0..n}

\* All orderings of a finite set.
Perms(S) == {p \in [1..Cardinality(S) -> S] : Range(p) = S}

(***************************************************************************)
(* Characters and cells.                                                   *)
(***************************************************************************)
Digits == <<"0", "1", "2", "3", "4", "5", "6", "7", "8", "9">>
IsDigit(ch) == \E i \in 1..10 : Digits[i] = ch
DigitVal(ch) == (CHOOSE i \in 1..10 : Digits[i] = ch) - 1

\* A missing value (NaN) of the table; no CSV cell spells it.
NA == <<"NaN">>

\* str.strip(): leading and trailing white space removed.
IsSpace(ch) == ch = " "
RECURSIVE LStrip(_)
LStrip(s) == IF s # <<>> /\ IsSpace(Head(s)) THEN LStrip(Tail(s)) ELSE s
RECURSIVE RStrip(_)
RStrip(s) ==
    IF s # <<>> /\ IsSpace(s[Len(s)]) THEN RStrip(SubSeq(s, 1, Len(s) - 1)) ELSE s
Strip(s) == RStrip(LStrip(s))

(***************************************************************************)
(* Numbers: pd.to_numeric(errors='coerce') after replace(',', '.').         *)
(***************************************************************************)
\* Series.replace(',', '.', regex=True): every comma of every cell.
ReplaceComma(s) == [i \in DOMAIN s |-> IF s[i] = "," THEN "." ELSE s[i]]

RECURSIVE DigitsVal(_)
DigitsVal(s) ==
    IF s = <<>> THEN 0 ELSE 10 * DigitsVal(SubSeq(s, 1, Len(s) - 1)) + DigitVal(s[Len(s)])

DotPos(s) == {i \in DOMAIN s : s[i] = "."}

\* An unsigned decimal numeral: digits with at most one point, at least one digit.
IsUnsigned(s) ==
    /\ \A i \in DOMAIN s : IsDigit(s[i]) \/ s[i] = "."
    /\ Cardinality(DotPos(s)) <= 1
    /\ \E i \in DOMAIN s : IsDigit(s[i])
    /\ \A d \in DotPos(s) : Len(s) - d <= FracDigits

UnsignedVal(s) ==
    IF DotPos(s) = {} THEN DigitsVal(s) * Scale
    ELSE LET d == CHOOSE i \in DotPos(s) : TRUE
             frac == SubSeq(s, d + 1, Len(s))
         IN  DigitsVal(SubSeq(s, 1, d - 1)) * Scale
               + DigitsVal(frac) * Pow10(FracDigits - Len(frac))

\* TRUE iff to_numeric gives a number (not NaN) for the cell.
Parses(s) ==
    /\ s # NA
    /\ s # <<>>
    /\ IF Head(s) = "-" THEN IsUnsigned(Tail(s)) ELSE IsUnsigned(s)

\* The number to_numeric gives for a cell that parses.
ToNumeric(s) == IF Head(s) = "-" THEN 0 - UnsignedVal(Tail(s)) ELSE UnsignedVal(s)

\* to_numeric(column.replace(',', '.'), errors='coerce').dropna(): the numbers
\* of the cells that parse, in row order.
RECURSIVE NumericValues(_)
NumericValues(col) ==
    IF col = <<>> THEN <<>>
    ELSE LET c == ReplaceComma(Head(col))
         IN  (IF Parses(c) THEN <<ToNumeric(c)>> ELSE <<>>) \o NumericValues(Tail(col))

\* series[series >= 0] in place of series[series > 0].
Positive_NonNegative(vals) == SelectSeq(vals, LAMBDA v : v >= 0)
\* series[series > 0]
Positive(vals) == SelectSeq(vals, LAMBDA v : v > 0)

\* The integer nearest to num/den (den > 0), ties to the even one: round().
RoundHalfEven(num, den) ==
    LET q == num \div den
        r == num % den
    IN  IF 2 * r < den THEN q
        ELSE IF 2 * r > den THEN q + 1
        ELSE IF q % 2 = 0 THEN q ELSE q + 1

\* round(num/den, digits) for a fixed-point quotient num/den, as a fixed-point
\* number again.
RoundTo(num, den, digits) ==
    RoundHalfEven(num * Pow10(digits), den * Scale) * Pow10(FracDigits - digits)

\* The rounding left out.
RoundSeries_Identity(vals, digits) == vals
\* Series.round(3)
RoundSeries(vals, digits) == [i \in DOMAIN vals |-> RoundTo(vals[i], 1, digits)]

\* value_counts().sort_index() of a numeric series: the distinct values in
\* ascending order, each with its number of occurrences.
Occurrences(vals, v) == Cardinality({i \in DOMAIN vals : vals[i] = v})
\* sort_index(ascending=False) in place of sort_index().
SortedValueCounts_Descending(vals) ==
    LET xs == SortedSeq(Range(vals))
        n == Len(xs)
    IN  [i \in DOMAIN xs |->
           [label |-> xs[n + 1 - i], count |-> Occurrences(vals, xs[n + 1 - i])]]
SortedValueCounts(vals) ==
    LET xs == SortedSeq(Range(vals))
    IN  [i \in DOMAIN xs |-> [label |-> xs[i], count |-> Occurrences(vals, xs[i])]]

\* Series.median(), as the fraction <<numerator, denominator>>.
Median(vals) ==
    LET n == Len(vals)
        sorted == SortedSeq({vals[i] * (n + 1) + i : i \in DOMAIN vals})
        at(k) == sorted[k] \div (n + 1)
    IN  IF n % 2 = 1 THEN <<at((n + 1) \div 2), 1>>
        ELSE <<at(n \div 2) + at(n \div 2 + 1), 2>>

(***************************************************************************)
(* Formatting of numbers inside f-strings.                                 *)
(***************************************************************************)
RECURSIVE IntStr(_)
IntStr(n) ==
    IF n < 10 THEN <<Digits[n + 1]>> ELSE IntStr(n \div 10) \o <<Digits[(n % 10) + 1]>>

\* The k digits of f, with leading zeros.
RECURSIVE FixedDigits(_, _)
FixedDigits(f, k) ==
    IF k = 0 THEN <<>> ELSE FixedDigits(f \div 10, k - 1) \o <<Digits[(f % 10) + 1]>>

RECURSIVE DropTrailingZeros(_)
DropTrailingZeros(s) ==
    IF Len(s) > 1 /\ s[Len(s)] = "0" THEN DropTrailingZeros(SubSeq(s, 1, Len(s) - 1))
    ELSE s

\* str() of the float v (fixed-point): sign, integer part, point, fraction
\* without trailing zeros but with at least one digit.
FloatStr(v) ==
    LET a == IF v < 0 THEN 0 - v ELSE v
    IN  (IF v < 0 THEN <<"-">> ELSE <<>>)
          \o IntStr(a \div Scale) \o <<".">>
          \o DropTrailingZeros(FixedDigits(a % Scale, FracDigits))

(***************************************************************************)
(* Series.value_counts() of a column of responses.                         *)
(***************************************************************************)
Categories(col) == Range(col) \ {NA}
CountOf(col, c) == Cardinality({i \in DOMAIN col : col[i] = c})
NonMissing(col) == Cardinality({i \in DOMAIN col : col[i] # NA})

\* value_counts(dropna=False): the missing responses counted as a category.
ValueCounts_KeepNA(col) ==
    {[i \in DOMAIN p |-> [label |-> p[i], count |-> CountOf(col, p[i])]] :
        p \in {q \in Perms(Range(col)) :
                 \A i, j \in DOMAIN q : i < j => CountOf(col, q[i]) >= CountOf(col, q[j])}}
\* value_counts(sort=False): the categories in the order they are first met.
ValueCounts_Unsorted(col) ==
    {[i \in DOMAIN p |-> [label |-> p[i], count |-> CountOf(col, p[i])]] :
        p \in {q \in Perms(Categories(col)) :
                 \A i, j \in DOMAIN q : i < j =>
                    SetMin({k \in DOMAIN col : col[k] = q[i]})
                      < SetMin({k \in DOMAIN col : col[k] = q[j]})}}
\* The results value_counts() may give: every distinct non-missing response
\* with its number of rows, most frequent first.  The order among responses
\* of equal frequency is left to the library, so each such order is a result.
ValueCounts(col) ==
    {[i \in DOMAIN p |-> [label |-> p[i], count |-> CountOf(col, p[i])]] :
        p \in {q \in Perms(Categories(col)) :
                 \A i, j \in DOMAIN q : i < j => CountOf(col, q[i]) >= CountOf(col, q[j])}}

Labels(vc) == [i \in DOMAIN vc |-> vc[i].label]
Counts(vc) == [i \in DOMAIN vc |-> vc[i].count]

\* Series.sum() and Series.max() of the counts.
CountSum(vc) == SumSeq(Counts(vc))
CountMax(vc) == SetMax(Range(Counts(vc)))
\* idxmin in place of idxmax.
IdxMax_IdxMin(vc) ==
    vc[SetMin({i \in DOMAIN vc : vc[i].count = SetMin(Range(Counts(vc)))})].label
\* Series.idxmax(): the label of the first row holding the largest count.
IdxMax(vc) == vc[SetMin({i \in DOMAIN vc : vc[i].count = CountMax(vc)})].label
\* The first row's count whatever the key (a positional read).
GetCount_First(vc, key) == IF vc = <<>> THEN 0 ELSE vc[1].count
\* Series.get(key, 0)
GetCount(vc, key) ==
    IF \E i \in DOMAIN vc : vc[i].label = key
    THEN vc[CHOOSE i \in DOMAIN vc : vc[i].label = key].count
    ELSE 0

\* round(100 * part / total, 1)
Share(part, total) == RoundTo(100 * part * Scale, total, ShareDigits)

\* ", ".join(f"{k}: {int(v)}" for k, v in items)
RECURSIVE JoinItems(_)
JoinItems(vc) ==
    IF vc = <<>> THEN <<>>
    ELSE Head(vc).label \o <<": ">> \o IntStr(Head(vc).count)
           \o (IF Tail(vc) = <<>> THEN <<>> ELSE <<", ">> \o JoinItems(Tail(vc)))

\* ", ".join(f"{x}h: {y}" for the bars of the backup-duration chart)
RECURSIVE JoinHours(_)
JoinHours(vc) ==
    IF vc = <<>> THEN <<>>
    ELSE FloatStr(Head(vc).label) \o <<"h: ">> \o IntStr(Head(vc).count)
           \o (IF Tail(vc) = <<>> THEN <<>> ELSE <<", ">> \o JoinHours(Tail(vc)))

(***************************************************************************)
(* Figures.  A figure carries its kind, title, category labels or numeric  *)
(* x values, the counts, the annotation text and the histogram bin count.  *)
(***************************************************************************)
Figure(q, kind, title, labels, x, values, text, nbinsx) ==
    [q |-> q, kind |-> kind, title |-> title, labels |-> labels, x |-> x,
     values |-> values, text |-> text, nbinsx |-> nbinsx]

Title(q) == <<short_titles[q]>>

\* go.Pie(labels=index, values=counts)
Pie(q, title, vc) == Figure(q, "pie", title, Labels(vc), <<>>, Counts(vc), "", 0)
\* go.Bar(x=index, y=counts) over categories
Bar(q, title, vc) == Figure(q, "bar", title, Labels(vc), <<>>, Counts(vc), "", 0)
\* go.Bar(y=labels, x=counts, orientation='h')
HBar(q, title, vc) == Figure(q, "hbar", title, Labels(vc), <<>>, Counts(vc), "", 0)
\* go.Bar(x=values, y=counts) over numbers
NumBar(q, title, vc) == Figure(q, "bar", title, <<>>, Labels(vc), Counts(vc), "", 0)
\* go.Histogram(x=series, nbinsx=10)
Histogram(q, title, vals) == Figure(q, "histogram", title, <<>>, vals, <<>>, "", NBins)
\* go.Figure() with add_annotation(text=...)
Placeholder(q, title, text) == Figure(q, "placeholder", title, <<>>, <<>>, <<>>, text, 0)

Entry(fig, desc) == [fig |-> fig, desc |-> desc]

(***************************************************************************)
(* The survey files the model reads.                                       *)
(***************************************************************************)
A == <<"A">>
B == <<"B">>
C == <<"C">>
Yes == <<"Y", "e", "s">>
No == <<"N", "o">>
Maybe == <<"M", "a", "y", "b", "e">>
Dash == <<"-">>
Blank == <<" ">>
UPS == <<"U", "P", "S">>
Empty == <<>>
Zero == <<"0">>
One == <<"1">>
MinusOne == <<"-", "1">>
Tiny == <<"0", ",", "0", "0", "0", "4">>
Junk == <<"x">>
OneAndHalf == <<"1", ",", "5">>

NumericCols == {hours_no_internet_col, outage_duration_col, backup_duration_col}

\* The responses a cell of column q is drawn from.
CsvCells(q) ==
    IF q = hours_no_internet_col THEN {Empty, Junk, Zero, One, MinusOne}
    ELSE IF q = outage_duration_col THEN {Empty, Zero, MinusOne, Tiny, One}
    ELSE IF q = backup_duration_col THEN {Empty, Junk, Zero, One, OneAndHalf}
    ELSE IF q = backup_yes_col THEN {Empty, Yes, No, Maybe}
    ELSE IF q = backup_type_col THEN {Empty, Dash, Blank, UPS}
    ELSE {Empty, A, B, C}

\* The answer every row gives in a column the file does not vary:
\* respondents with a backup source (bg = 1) or without one (bg = 2).
BackgroundCell(bg, q) ==
    IF q = backup_yes_col THEN (IF bg = 1 THEN Yes ELSE No)
    ELSE IF q = backup_type_col THEN (IF bg = 1 THEN UPS ELSE Dash)
    ELSE IF q = backup_duration_col THEN (IF bg = 1 THEN OneAndHalf ELSE Empty)
    ELSE IF q \in NumericCols THEN One
    ELSE A

\* The backgrounds a file varying column c is enumerated with.
Backgrounds(c) == IF c = backup_type_col THEN {1, 2} ELSE {1}

\* A file whose column c holds col and whose other columns hold the
\* background answer in every row.
Table(bg, c, col) ==
    [q \in Questions |->
        IF q = c THEN col ELSE [i \in DOMAIN col |-> BackgroundCell(bg, q)]]

\* The fixed ten-row scenario: 6 "Yes" / 4 "No" for backup availability and
\* three categories A(5), B(3), C(2), first met in the order C, B, A.
Fixture ==
    [q \in Questions |->
        IF q = backup_yes_col THEN <<Yes, No, Yes, Yes, No, Yes, No, Yes, No, Yes>>
        ELSE IF q = backup_type_col
          THEN <<UPS, Dash, UPS, UPS, Dash, UPS, Dash, UPS, Dash, UPS>>
        ELSE IF q = backup_duration_col
          THEN <<OneAndHalf, Empty, One, One, Empty, OneAndHalf, Empty, One, Empty, One>>
        ELSE IF q \in NumericCols
          THEN <<Zero, One, One, Tiny, OneAndHalf, Zero, MinusOne, Junk, Empty, One>>
        ELSE <<C, B, A, A, B, A, C, A, B, A>>]

\* The files read: the scenario, or a file varying one column.
IsCsvFile(t) ==
    \/ t = Fixture
    \/ \E c \in Questions : \E bg \in Backgrounds(c) :
         \E col \in SeqsUpTo(CsvCells(c), MaxRows) : t = Table(bg, c, col)

NoTable == [q \in Questions |-> <<>>]

Init ==
    /\ IsCsvFile(csv)
    /\ df = NoTable
    /\ pc = 0
    /\ exc = ""
    /\ charts = <<>>
    /\ html = <<>>
    /\ err9 = FALSE

(***************************************************************************)
(* read_csv: an empty field is read as a missing value.                    *)
(***************************************************************************)
ReadCell(cell) == IF cell = Empty THEN NA ELSE cell

read_csv ==
    /\ pc = 0
    /\ exc = ""
    /\ df' = [q \in Questions |-> [i \in DOMAIN csv[q] |-> ReadCell(csv[q][i])]]
    /\ pc' = 1
    /\ UNCHANGED <<csv, exc, charts, html, err9>>

(***************************************************************************)
(* create_all_charts, one derivation per step.                             *)
(***************************************************************************)
\* The derivation appends its entry and the next one follows.
Emit(entry) ==
    /\ charts' = Append(charts, entry)
    /\ pc' = pc + 1
    /\ UNCHANGED <<csv, df, exc, html, err9>>

\* The derivation appends nothing and the next one follows.
Skip ==
    /\ pc' = pc + 1
    /\ UNCHANGED <<csv, df, exc, charts, html, err9>>

\* An uncaught exception leaves create_all_charts and main.
Raise(e) ==
    /\ exc' = e
    /\ UNCHANGED <<csv, df, pc, charts, html, err9>>

At(q) == pc = q /\ exc = ""

\* 1. Region distribution (pie); idxmax of an empty series raises.
DeriveRegion ==
    /\ At(region_col)
    /\ \E region_counts \in ValueCounts(df[region_col]) :
         IF region_counts = <<>> THEN Raise("ValueError")
         ELSE Emit(Entry(
                Pie(region_col,
                    Title(region_col) \o <<" (n=">> \o IntStr(CountSum(region_counts))
                      \o <<")">>,
                    region_counts),
                <<"Top region: ">> \o IdxMax(region_counts) \o <<" (">>
                  \o FloatStr(Share(CountMax(region_counts), CountSum(region_counts)))
                  \o <<"%). Total regions: ">> \o IntStr(Len(region_counts)) \o <<".">>))

\* 2. Internet connection type (pie); idxmax of an empty series raises.
DeriveConnection ==
    /\ At(conn_col)
    /\ \E conn_counts \in ValueCounts(df[conn_col]) :
         IF conn_counts = <<>> THEN Raise("ValueError")
         ELSE Emit(Entry(
                Pie(conn_col, Title(conn_col), conn_counts),
                <<"Most common connection: ">> \o IdxMax(conn_counts) \o <<" (">>
                  \o FloatStr(Share(CountMax(conn_counts), CountSum(conn_counts)))
                  \o <<"%).">>))

\* 3. Stability rating (pie).
DeriveStability ==
    /\ At(stability_col)
    /\ \E stability_counts \in ValueCounts(df[stability_col]) :
         Emit(Entry(
           Pie(stability_col, Title(stability_col), stability_counts),
           IF Len(stability_counts) >= 1
           THEN <<"Majority rated: ">> \o IdxMax(stability_counts) \o <<" (">>
                  \o FloatStr(Share(CountMax(stability_counts), CountSum(stability_counts)))
                  \o <<"%).">>
           ELSE <<"No stability data.">>))

\* A copy of the first branch's test in the second branch: never true there.
SumIsZero_LenIsZero(s_hours) == Len(s_hours) = 0
\* s_hours.sum() == 0
SumIsZero(s_hours) == SumSeq(s_hours) = 0

\* 4. Hours without internet (histogram or annotation).
DeriveHours ==
    /\ At(hours_no_internet_col)
    /\ LET s_hours == NumericValues(df[hours_no_internet_col])
           title == Title(hours_no_internet_col)
       IN  IF Len(s_hours) = 0
           THEN Emit(Entry(Placeholder(hours_no_internet_col, title, "No data"),
                           <<"All responses are zero or missing.">>))
           ELSE IF SumIsZero(s_hours)
           THEN Emit(Entry(
                  Placeholder(hours_no_internet_col, title,
                              "All respondents reported 0 hours per day without internet"),
                  <<"All respondents reported 0 hours without internet.">>))
           ELSE Emit(Entry(
                  Histogram(hours_no_internet_col, title, s_hours),
                  <<"Median: ">>
                    \o FloatStr(RoundTo(Median(s_hours)[1], Median(s_hours)[2], HoursDigits))
                    \o <<" h; Mean: ">>
                    \o FloatStr(RoundTo(SumSeq(s_hours), Len(s_hours), HoursDigits))
                    \o <<" h.">>))

\* 5. Power outage frequency (bar).
DeriveOutageFreq ==
    /\ At(outage_freq_col)
    /\ \E outage_freq \in ValueCounts(df[outage_freq_col]) :
         Emit(Entry(Bar(outage_freq_col, Title(outage_freq_col), outage_freq),
                    JoinItems(outage_freq)))

\* 6. Outage duration (bar of the positive durations, or annotation).
DeriveOutageDuration ==
    /\ At(outage_duration_col)
    /\ LET s_duration_all == NumericValues(df[outage_duration_col])
           s_duration == Positive(s_duration_all)
           title == Title(outage_duration_col)
       IN  IF Len(s_duration_all) = 0
           THEN Emit(Entry(
                  Placeholder(outage_duration_col, title,
                              "No data available for outage duration"),
                  <<"No outage duration data.">>))
           ELSE IF Len(s_duration) = 0
           THEN Emit(Entry(
                  Placeholder(outage_duration_col, title,
                              "All respondents reported 0 hours (no outages or zero-duration)"),
                  <<"All durations are zero.">>))
           ELSE Emit(Entry(
                  NumBar(outage_duration_col, title,
                         SortedValueCounts(RoundSeries(s_duration, DurationDigits))),
                  <<"min=">>
                    \o FloatStr(RoundTo(SetMin(Range(s_duration)), 1, DurationDigits))
                    \o <<"h, median=">>
                    \o FloatStr(RoundTo(Median(s_duration)[1], Median(s_duration)[2],
                                        DurationDigits))
                    \o <<"h, max=">>
                    \o FloatStr(RoundTo(SetMax(Range(s_duration)), 1, DurationDigits))
                    \o <<"h">>))

\* 7. Backup power source (pie).
DeriveBackup ==
    /\ At(backup_yes_col)
    /\ \E backup_counts \in ValueCounts(df[backup_yes_col]) :
         LET share_yes ==
               IF CountSum(backup_counts) # 0
               THEN FloatStr(Share(GetCount(backup_counts, Yes), CountSum(backup_counts)))
               ELSE <<"0">>
         IN  Emit(Entry(
               Pie(backup_yes_col, Title(backup_yes_col), backup_counts),
               <<"Yes: ">> \o IntStr(GetCount(backup_counts, Yes)) \o <<" (">>
                 \o share_yes \o <<"%), No: ">> \o IntStr(GetCount(backup_counts, No))
                 \o <<".">>))

\* The .str accessor exists only on an index of strings: a column read with
\* at least one row and no response at all is a float column, and its value
\* counts have a float index.
HasStrAccessor(col) == col = <<>> \/ Categories(col) # {}

\* Only the "-" placeholder filtered, blank responses kept.
KeepBackupType_DashOnly(vc) == SelectSeq(vc, LAMBDA r : r.label # Dash)
\* backup_type[(index != '-') & (index.str.strip() != '')]
KeepBackupType(vc) == SelectSeq(vc, LAMBDA r : r.label # Dash /\ Strip(r.label) # <<>>)

\* 8. Type of backup (horizontal bar), only when a category remains.
DeriveBackupType ==
    /\ At(backup_type_col)
    /\ \E counts \in ValueCounts(df[backup_type_col]) :
         IF ~HasStrAccessor(df[backup_type_col]) THEN Raise("AttributeError")
         ELSE LET backup_type == KeepBackupType(counts)
              IN  IF Len(backup_type) > 0
                  THEN Emit(Entry(
                         HBar(backup_type_col,
                              Title(backup_type_col) \o <<" (actual users)">>, backup_type),
                         JoinItems(backup_type)))
                  ELSE Skip

\* 9. Backup duration (bar of the positive values), only when one remains.
\* An exception raised inside the try block (fault) is swallowed.
DeriveBackupDuration ==
    /\ At(backup_duration_col)
    /\ \E fault \in BOOLEAN :
         IF fault
         THEN /\ err9' = TRUE
              /\ pc' = pc + 1
              /\ UNCHANGED <<csv, df, exc, charts, html>>
         ELSE LET df_backup_dur == Positive(NumericValues(df[backup_duration_col]))
              IN  IF Len(df_backup_dur) > 0
                  THEN Emit(Entry(
                         NumBar(backup_duration_col,
                                Title(backup_duration_col) \o <<" (actual users)">>,
                                SortedValueCounts(df_backup_dur)),
                         JoinHours(SortedValueCounts(df_backup_dur))))
                  ELSE Skip

\* 10. Device type (pie).
DeriveDevice ==
    /\ At(device_col)
    /\ \E device_counts \in ValueCounts(df[device_col]) :
         Emit(Entry(Pie(device_col, Title(device_col), device_counts),
                    JoinItems(device_counts)))

\* 11. Separate workplace (pie).
DeriveWorkplace ==
    /\ At(workplace_col)
    /\ \E workplace_counts \in ValueCounts(df[workplace_col]) :
         Emit(Entry(Pie(workplace_col, Title(workplace_col), workplace_counts),
                    JoinItems(workplace_counts)))

\* 12. Accessories (pie).
DeriveAccessories ==
    /\ At(accessories_col)
    /\ \E accessories_counts \in ValueCounts(df[accessories_col]) :
         Emit(Entry(Pie(accessories_col, Title(accessories_col), accessories_counts),
                    JoinItems(accessories_counts)))

\* 13. Ergonomic equipment (bar).
DeriveErgonomic ==
    /\ At(ergonomic_col)
    /\ \E ergo_counts \in ValueCounts(df[ergonomic_col]) :
         Emit(Entry(Bar(ergonomic_col, Title(ergonomic_col), ergo_counts),
                    JoinItems(ergo_counts)))

(***************************************************************************)
(* create_html_report: one block per entry, in list order.                 *)
(***************************************************************************)
\* create_all_charts has returned its list.
Returned == pc > ergonomic_col /\ exc = ""

\* enumerate(charts, 1): the ids counted from 1.
Block_OneBased(idx, item) ==
    [div_id |-> <<"chart_">> \o IntStr(idx + 1), fig |-> item.fig, desc |-> item.desc]
Block(idx, item) ==
    [div_id |-> <<"chart_">> \o IntStr(idx), fig |-> item.fig, desc |-> item.desc]

create_html_report ==
    /\ pc = ergonomic_col + 1
    /\ exc = ""
    /\ html' = [k \in DOMAIN charts |-> Block(k - 1, charts[k])]
    /\ pc' = pc + 1
    /\ UNCHANGED <<csv, df, exc, charts, err9>>

Next ==
    \/ read_csv
    \/ DeriveRegion
    \/ DeriveConnection
    \/ DeriveStability
    \/ DeriveHours
    \/ DeriveOutageFreq
    \/ DeriveOutageDuration
    \/ DeriveBackup
    \/ DeriveBackupType
    \/ DeriveBackupDuration
    \/ DeriveDevice
    \/ DeriveWorkplace
    \/ DeriveAccessories
    \/ DeriveErgonomic
    \/ create_html_report

Spec == Init /\ [][Next]_vars

(***************************************************************************)
(* Vocabulary of the properties.                                           *)
(***************************************************************************)
\* Derivation q has run to its end (an exception leaves pc at its step).
Ran(q) == pc > q
Done == pc = ergonomic_col + 2

\* The positions of the list that hold the chart of question q.
EntriesOf(q) == {k \in DOMAIN charts : charts[k].fig.q = q}
HasEntry(q) == EntriesOf(q) # {}
EntryOf(q) == charts[CHOOSE k \in EntriesOf(q) : TRUE]

\* The chart's (label, count) rows, read back from the figure.
Rows(fig) == [i \in DOMAIN fig.labels |-> [label |-> fig.labels[i], count |-> fig.values[i]]]

\* The rows of column q whose response parses as a number, and its value.
ParsedRows(q) == {i \in DOMAIN df[q] : Parses(ReplaceComma(df[q][i]))}
ValueAt(q, i) == ToNumeric(ReplaceComma(df[q][i]))
PositiveRows(q) == {i \in ParsedRows(q) : ValueAt(q, i) > 0}

\* The rows of the backup-type column that are a real answer.
IsNotApplicable(cell) == cell = Dash \/ Strip(cell) = <<>>
BackupTypeRows ==
    {i \in DOMAIN df[backup_type_col] :
        df[backup_type_col][i] # NA /\ ~IsNotApplicable(df[backup_type_col][i])}

CategoricalCols ==
    {region_col, conn_col, stability_col, outage_freq_col, backup_yes_col,
     backup_type_col, device_col, workplace_col, accessories_col, ergonomic_col}
TopCols == {region_col, conn_col, stability_col}
ListedCols == {outage_freq_col, device_col, workplace_col, accessories_col, ergonomic_col}

\* C1: the counts carried by every categorical chart sum to the number of
\* rows of its column with a non-missing response; for the backup-type chart
\* to the number of non-missing rows that are neither "-" nor blank.
C1_CountTotal ==
    \A k \in DOMAIN charts :
        LET fig == charts[k].fig
        IN  fig.q \in CategoricalCols =>
              SumSeq(fig.values) =
                IF fig.q = backup_type_col THEN Cardinality(BackupTypeRows)
                ELSE NonMissing(df[fig.q])

\* A finished run whose backup-type column holds a missing, a "-" and a real
\* response, with the chart built.
C1_Witness ==
    /\ Done
    /\ HasEntry(backup_type_col)
    /\ {NA, Dash} \subseteq Range(df[backup_type_col])
    /\ HasEntry(region_col)

\* C2: in every top/majority summary the label shown is a category holding
\* the largest count of the chart, and the percentage shown is
\* round(100 * max_count / total_count, 1) over that chart's counts.
TopPrefix(q) ==
    IF q = region_col THEN <<"Top region: ">>
    ELSE IF q = conn_col THEN <<"Most common connection: ">>
    ELSE <<"Majority rated: ">>
TopSuffix(q, n) ==
    IF q = region_col THEN <<"%). Total regions: ">> \o IntStr(n) \o <<".">>
    ELSE <<"%).">>
C2_TopShare ==
    \A k \in DOMAIN charts :
        LET fig == charts[k].fig
            max_count == SetMax(Range(fig.values))
            total_count == SumSeq(fig.values)
        IN  (fig.q \in TopCols /\ charts[k].desc # <<"No stability data.">>) =>
              /\ fig.values # <<>>
              /\ \E i \in DOMAIN fig.labels :
                   /\ fig.values[i] = max_count
                   /\ charts[k].desc =
                        TopPrefix(fig.q) \o fig.labels[i] \o <<" (">>
                          \o FloatStr(RoundTo(100 * max_count * Scale, total_count, ShareDigits))
                          \o TopSuffix(fig.q, Len(fig.labels))

\* A region chart of two categories, one with two rows and one with one:
\* the share shown is 66.7.
C2_Witness ==
    /\ Done
    /\ HasEntry(region_col)
    /\ EntryOf(region_col).fig.values = <<2, 1>>

\* C3: in every chart with a "category: count" summary the categories stand
\* in descending order of frequency, and the summary lists the chart's labels
\* and values in the chart's order; the ten-row scenario A(5), B(3), C(2)
\* yields A, B, C.
C3_DescendingOrder ==
    \A k \in DOMAIN charts :
        LET fig == charts[k].fig
        IN  fig.q \in ListedCols =>
              /\ \A i, j \in DOMAIN fig.values : i < j => fig.values[i] >= fig.values[j]
              /\ \A i \in DOMAIN fig.labels : fig.values[i] = CountOf(df[fig.q], fig.labels[i])
              /\ charts[k].desc = JoinItems(Rows(fig))
              /\ (csv = Fixture => fig.labels = <<A, B, C>> /\ fig.values = <<5, 3, 2>>)

\* A device chart listing B before A although A is met first in the rows
\* and comes first in the alphabet.
C3_Witness ==
    /\ Done
    /\ HasEntry(device_col)
    /\ EntryOf(device_col).fig.labels = <<B, A>>
    /\ df[device_col][1] = A

AllZero(q) == \A i \in ParsedRows(q) : ValueAt(q, i) = 0

\* C4: once the hours derivation has run the list holds exactly one entry
\* for it; with no parsed value it is the "No data" placeholder, with parsed
\* values that are all zero it is the "All respondents reported 0 hours"
\* placeholder without a histogram trace, and a histogram (10 bins) stands
\* only where some value parses and not all parsed values are zero.
C4_HoursBranches ==
    Ran(hours_no_internet_col) =>
        /\ Cardinality(EntriesOf(hours_no_internet_col)) = 1
        /\ LET e == EntryOf(hours_no_internet_col)
               none == ParsedRows(hours_no_internet_col) = {}
               zeros == ~none /\ AllZero(hours_no_internet_col)
           IN  /\ none => e.fig.kind = "placeholder" /\ e.fig.text = "No data"
               /\ zeros =>
                    /\ e.fig.kind = "placeholder"
                    /\ e.fig.text = "All respondents reported 0 hours per day without internet"
                    /\ e.fig.x = <<>>
               /\ e.fig.kind = "histogram" => ~none /\ ~zeros /\ e.fig.nbinsx = NBins

\* A run whose hours column holds a missing response and a zero, after the
\* derivation: the all-zero placeholder.
C4_Witness ==
    /\ Ran(hours_no_internet_col)
    /\ Range(df[hours_no_internet_col]) = {NA, Zero}
    /\ EntryOf(hours_no_internet_col).fig.kind = "placeholder"

C6_BackupTypeFilter ==
    /\ \A k \in EntriesOf(backup_type_col) :
         /\ \A i \in DOMAIN charts[k].fig.labels :
              /\ charts[k].fig.labels[i] # Dash
              /\ Strip(charts[k].fig.labels[i]) # <<>>
         /\ charts[k].desc = JoinItems(Rows(charts[k].fig))
    /\ Ran(backup_type_col) =>
         (HasEntry(backup_type_col) <=> BackupTypeRows # {})

\* The chart built from a column holding "-", a blank and a real answer.
C6_Witness ==
    /\ Ran(backup_type_col)
    /\ HasEntry(backup_type_col)
    /\ {Dash, Blank} \subseteq Range(df[backup_type_col])

\* C7: the backup-availability summary is "Yes: <y> (<p>%), No: <n>." with
\* y and n the numbers of rows answering "Yes" and "No" (0 when absent) and
\* p = round(100 * y / total, 1) over the non-missing responses, p = 0 when
\* there is none; 6 "Yes" and 4 "No" give "Yes: 6 (60.0%), No: 4.".
C7_BackupSummary ==
    Ran(backup_yes_col) =>
        /\ Cardinality(EntriesOf(backup_yes_col)) = 1
        /\ LET col == df[backup_yes_col]
               y == Cardinality({i \in DOMAIN col : col[i] = Yes})
               n == Cardinality({i \in DOMAIN col : col[i] = No})
               total == NonMissing(col)
               p == IF total = 0 THEN <<"0">>
                    ELSE FloatStr(RoundTo(100 * y * Scale, total, ShareDigits))
           IN  /\ EntryOf(backup_yes_col).desc =
                    <<"Yes: ">> \o IntStr(y) \o <<" (">> \o p \o <<"%), No: ">>
                      \o IntStr(n) \o <<".">>
               /\ csv = Fixture =>
                    EntryOf(backup_yes_col).desc =
                      <<"Yes: ", "6", " (", "6", "0", ".", "0", "%), No: ", "4", ".">>

\* The ten-row scenario after the backup-availability derivation.
C7_Witness ==
    /\ Ran(backup_yes_col)
    /\ csv = Fixture

\* C8: the list create_all_charts returns holds the charts in the order of
\* their question numbers, every question other than 8 and 9 exactly once
\* and 8 and 9 at most once; the report written from it holds one block per
\* entry, in list order, each with that entry's chart and that entry's own
\* summary, the block at position idx carrying the id chart_<idx> from 0.
C8_ReportOrder ==
    /\ Returned =>
         /\ \A i, j \in DOMAIN charts : i < j => charts[i].fig.q < charts[j].fig.q
         /\ \A q \in Questions \ {backup_type_col, backup_duration_col} :
              Cardinality(EntriesOf(q)) = 1
         /\ \A q \in {backup_type_col, backup_duration_col} : Cardinality(EntriesOf(q)) <= 1
    /\ Done =>
         /\ Len(html) = Len(charts)
         /\ \A k \in DOMAIN html :
              /\ html[k].div_id = <<"chart_">> \o IntStr(k - 1)
              /\ html[k].fig = charts[k].fig
              /\ html[k].desc = charts[k].desc
         /\ \A i, j \in DOMAIN html : i # j => html[i].div_id # html[j].div_id
    /\ ~Done => html = <<>>

\* A written report of eleven blocks: charts 8 and 9 both left out.
C8_Witness ==
    /\ Done
    /\ Len(html) = Cardinality(Questions) - 2
    /\ ~HasEntry(backup_type_col)
    /\ ~HasEntry(backup_duration_col)

\* C9: once the backup-duration derivation has run without an exception the
\* chart is in the list if and only if a row holds a positive parsed value;
\* its x values are then the distinct positive values in strictly ascending
\* order and its counts sum to the number of such rows.  An exception inside
\* the derivation leaves the chart out, raises nothing, and charts 10 to 13
\* are still produced.
C9_BackupDuration ==
    /\ (Ran(backup_duration_col) /\ ~err9) =>
         (HasEntry(backup_duration_col) <=> PositiveRows(backup_duration_col) # {})
    /\ \A k \in EntriesOf(backup_duration_col) :
         LET fig == charts[k].fig
         IN  /\ \A i, j \in DOMAIN fig.x : i < j => fig.x[i] < fig.x[j]
             /\ Range(fig.x) =
                  {ValueAt(backup_duration_col, i) : i \in PositiveRows(backup_duration_col)}
             /\ SumSeq(fig.values) = Cardinality(PositiveRows(backup_duration_col))
             /\ Len(fig.values) = Len(fig.x)
    /\ err9 =>
         /\ Ran(backup_duration_col)
         /\ ~HasEntry(backup_duration_col)
         /\ exc = ""
         /\ (Returned => \A q \in {device_col, workplace_col, accessories_col, ergonomic_col} :
                            HasEntry(q))
         /\ (~Done => ENABLED Next)

\* A written report whose chart 9 was lost to a swallowed exception although
\* the column holds positive values.
C9_Witness ==
    /\ Done
    /\ err9
    /\ PositiveRows(backup_duration_col) # {}
    /\ HasEntry(ergonomic_col)

\* The column of derivation q holds no usable answer: no parsed value or only
\* zeros for the hours, no positive parsed value for the two durations.
NoUsableAnswer(q) ==
    IF q = hours_no_internet_col THEN AllZero(q) ELSE PositiveRows(q) = {}

IsPlaceholderEntry(q) ==
    /\ Cardinality(EntriesOf(q)) = 1
    /\ EntryOf(q).fig.kind = "placeholder"
    /\ EntryOf(q).fig.text # ""

\* C10 as stated: each of the derivations 4, 6 and 9 leaves a placeholder
\* entry in the list whenever its column holds no usable answer.
C10_AsStated ==
    \A q \in NumericCols : (Ran(q) /\ NoUsableAnswer(q)) => IsPlaceholderEntry(q)

\* C10 amended: derivations 4 and 6 leave a placeholder entry whenever their
\* column holds no usable answer; derivation 9 then leaves no entry at all,
\* and raises nothing.
C10_Placeholders ==
    /\ \A q \in {hours_no_internet_col, outage_duration_col} :
         (Ran(q) /\ NoUsableAnswer(q)) => IsPlaceholderEntry(q)
    /\ (Ran(backup_duration_col) /\ NoUsableAnswer(backup_duration_col)) =>
         ~HasEntry(backup_duration_col) /\ exc = ""

\* A written report from a file whose backup-duration column holds only
\* zero, unparseable and missing responses: no block for question 9, the
\* later questions present.
C10_Witness ==
    /\ Done
    /\ ~err9
    /\ {Zero, Junk, NA} \subseteq Range(df[backup_duration_col])
    /\ NoUsableAnswer(backup_duration_col)
    /\ ~HasEntry(backup_duration_col)
    /\ HasEntry(device_col)

\* C11: the hours chart is the "All respondents reported 0 hours per day
\* without internet" placeholder only if every parsed value of the column is
\* zero; with a parsed value that is not zero, negative ones included, it is
\* a histogram.
C11_ZeroPlaceholderOnlyIfAllZero ==
    Ran(hours_no_internet_col) =>
        LET e == EntryOf(hours_no_internet_col)
        IN  /\ e.fig.text = "All respondents reported 0 hours per day without internet"
                 => AllZero(hours_no_internet_col)
            /\ ~AllZero(hours_no_internet_col) => e.fig.kind = "histogram"

\* C12: create_all_charts raises nothing, whatever the columns hold, and the
\* list it returns has between 11 and 13 entries.
C12_NeverRaises ==
    /\ exc = ""
    /\ Returned =>
         /\ Len(charts) >= Cardinality(Questions) - 2
         /\ Len(charts) <= Cardinality(Questions)

====
